---- MODULE Spec2Model ----
(***************************************************************************)
(* PyDetectionDNN (src/Modules/PyDetectionDNN/PyDetectionDNN.py): the      *)
(* per-frame cycle of process() and the decode / suppress / draw steps of  *)
(* postprocess().                                                          *)
(*                                                                         *)
(* Numbers.  Every element of a network output tensor is a float.  The     *)
(* model writes a float x as the integer x * Den (hundredths, the unit in  *)
(* which drawPred prints a confidence: conf * 100), so that 0.5 is 50 and  *)
(* the frame fraction 0.1 is 10.  Products with the integer                *)
(* frame size and Python's int() are computed exactly on these rationals;  *)
(* float rounding error of the products is not modelled.                   *)
(***************************************************************************)
EXTENDS Integers, Sequences, FiniteSets, TLC

Den == 100

ConfThreshold == 50

NmsThreshold == 40

InpWidth == 160

InpHeight == 120

MaxRows == 2

MaxCands == 3

VARIABLES net, classes, confThreshold, nmsThreshold, pc, frame, outs,
          classIds, confidences, boxes, rowOf, indices, drawn, status,
          prevStatus, pass

vars == <<net, classes, confThreshold, nmsThreshold, pc, frame, outs,
          classIds, confidences, boxes, rowOf, indices, drawn, status,
          prevStatus, pass>>

(***************************************************************************)
(* Helpers                                                                 *)
(***************************************************************************)
SeqsUpTo(S, n) == UNION {[1..k -> S] : k \in 0..n}

Indices(s) == [i \in 1..Len(s) |-> i]

\* Python int() of the rational a / b (b > 0): the fraction is dropped,
\* toward zero.
PyInt(a, b) == IF a >= 0 THEN a \div b ELSE -((-a) \div b)

\* a / Den rounded to the nearest integer (halves away from zero).
Round(a) == IF a >= 0 THEN (2 * a + Den) \div (2 * Den)
            ELSE -((2 * (-a) + Den) \div (2 * Den))

\* np.argmax(scores): 0-based index of the first maximum.
ArgMax(scores) ==
    CHOOSE i \in 0..(Len(scores) - 1) :
        /\ \A j \in 0..(Len(scores) - 1) : scores[j + 1] <= scores[i + 1]
        /\ \A j \in 0..(i - 1) : scores[j + 1] < scores[i + 1]

\* seq[i] of a Python list: a negative i counts from the end.
PyInRange(seq, i) == -Len(seq) <= i /\ i < Len(seq)

PyIndex(seq, i) == IF i >= 0 THEN seq[i + 1] ELSE seq[Len(seq) + i + 1]

(***************************************************************************)
(* The network (loaded once by __init__) and its outputs                   *)
(***************************************************************************)
Nets ==
    { [imInfo |-> TRUE,  type |-> "DetectionOutput"],
      [imInfo |-> FALSE, type |-> "DetectionOutput"],
      [imInfo |-> FALSE, type |-> "Region"],
      [imInfo |-> FALSE, type |-> "Softmax"] }

ClassTables == { <<>>, <<"aeroplane", "bicycle", "bird">> }

Frames == { <<640, 480>>, <<176, 144>> }

\* Raw class ids 0 (background), 1 and 5; confidences 0.4, 0.5, 0.6, 0.9.
RawClasses == {0, 100, 500}

RawConfs == {40, 50, 60, 90}

\* [left, top, right, bottom] in pixels (Faster-RCNN): 10.5, 20, 50.9, 60;
\* a row with right < left; a row with a negative left.
PixelGeoms == { <<1050, 2000, 5090, 6000>>, <<5000, 2000, 1000, 6000>>,
                <<-150, 2000, 5090, 6000>> }

\* [left, top, right, bottom] as frame fractions (SSD).
FractionGeoms == { <<10, 20, 50, 60>>, <<50, 20, 10, 60>>, <<-1, 20, 50, 60>> }

\* [center_x, center_y, width, height] as frame fractions (YOLO).
GridGeoms == { <<50, 50, 40, 40>>, <<50, 50, 0, 40>>, <<10, 50, 45, 41>> }

GridScores == { <<10, 80, 5>>, <<90, 60, 70>>, <<10, 80, 80>>, <<90, 50, 40>> }

DetectionRows(geoms) ==
    { <<0, c, p>> \o g : c \in RawClasses, p \in RawConfs, g \in geoms }

GridRows == { g \o s : g \in GridGeoms, s \in GridScores }

\* Class probabilities of a classification network.
SoftmaxRows == { <<10, 20, 30, 5, 5, 20, 10>>, <<5, 5, 5, 5, 5, 5, 70>> }

RowsOf(n) ==
    IF n.imInfo THEN DetectionRows(PixelGeoms)
    ELSE IF n.type = "DetectionOutput" THEN DetectionRows(FractionGeoms)
    ELSE IF n.type = "Region" THEN GridRows
    ELSE SoftmaxRows

\* All rows of all output blobs, in the order of the two nested loops.
OutsOf(n) == SeqsUpTo(RowsOf(n), MaxRows)

(***************************************************************************)
(* The three decoders of postprocess().  A row d is a TLA+ sequence, so    *)
(* Python's detection[k] is d[k + 1].                                      *)
(***************************************************************************)
AcceptImInfo(confidence, threshold) == confidence > threshold

AcceptDetectionOutput(confidence, threshold) == confidence > threshold

\* The test with >= for >.
AcceptAtLeast(confidence, threshold) == confidence >= threshold

AcceptRegion(confidence, threshold) == confidence > threshold

\* int(detection[k]): a pixel coordinate or a class id.
ToInt(v) == PyInt(v, Den)

\* round() for int: the product rounded to the nearest integer.
ScaleToRound(v, size) == Round(v * size)

\* int(detection[k] * frameWidth)
ScaleToInt(v, size) == PyInt(v * size, Den)

ImInfoClassId(d) == ToInt(d[2]) - 1

ImInfoBox(d) ==
    LET left == ToInt(d[4])
        top == ToInt(d[5])
        right == ToInt(d[6])
        bottom == ToInt(d[7])
        width == right - left + 1
        height == bottom - top + 1
    IN <<left, top, width, height>>

DetectionOutputClassId(d) == ToInt(d[2]) - 1

DetectionOutputBox(d, frameWidth, frameHeight) ==
    LET left == ScaleToInt(d[4], frameWidth)
        top == ScaleToInt(d[5], frameHeight)
        right == ScaleToInt(d[6], frameWidth)
        bottom == ScaleToInt(d[7], frameHeight)
        width == right - left + 1
        height == bottom - top + 1
    IN <<left, top, width, height>>

\* scores = detection[5:]
RegionScores(d) == SubSeq(d, 6, Len(d))

RegionClassId(d) == ArgMax(RegionScores(d))

RegionConfidence(d) == RegionScores(d)[RegionClassId(d) + 1]

RegionBox(d, frameWidth, frameHeight) ==
    LET center_x == ScaleToInt(d[1], frameWidth)
        center_y == ScaleToInt(d[2], frameHeight)
        width == ScaleToInt(d[3], frameWidth)
        height == ScaleToInt(d[4], frameHeight)
        left == PyInt(2 * center_x - width, 2)
        top == PyInt(2 * center_y - height, 2)
    IN <<left, top, width, height>>

\* The two nested loops of each branch: the accepted rows, in order, appended
\* to the three lists.  rowOf records the row each candidate was decoded from.
DecodeImInfoRows(rows, threshold) ==
    LET idx == SelectSeq(Indices(rows),
                         LAMBDA i : AcceptImInfo(rows[i][3], threshold))
    IN [ classIds |-> [k \in 1..Len(idx) |-> ImInfoClassId(rows[idx[k]])],
         confidences |-> [k \in 1..Len(idx) |-> rows[idx[k]][3]],
         boxes |-> [k \in 1..Len(idx) |-> ImInfoBox(rows[idx[k]])],
         rowOf |-> idx ]

DecodeDetectionOutputRows(rows, threshold, frameWidth, frameHeight) ==
    LET idx == SelectSeq(Indices(rows),
                         LAMBDA i : AcceptDetectionOutput(rows[i][3], threshold))
    IN [ classIds |-> [k \in 1..Len(idx) |-> DetectionOutputClassId(rows[idx[k]])],
         confidences |-> [k \in 1..Len(idx) |-> rows[idx[k]][3]],
         boxes |-> [k \in 1..Len(idx) |->
                      DetectionOutputBox(rows[idx[k]], frameWidth, frameHeight)],
         rowOf |-> idx ]

DecodeRegionRows(rows, threshold, frameWidth, frameHeight) ==
    LET idx == SelectSeq(Indices(rows),
                         LAMBDA i : AcceptRegion(RegionConfidence(rows[i]), threshold))
    IN [ classIds |-> [k \in 1..Len(idx) |-> RegionClassId(rows[idx[k]])],
         confidences |-> [k \in 1..Len(idx) |-> RegionConfidence(rows[idx[k]])],
         boxes |-> [k \in 1..Len(idx) |->
                      RegionBox(rows[idx[k]], frameWidth, frameHeight)],
         rowOf |-> idx ]

\* The chain with its last test dropped: every other layer type decoded as
\* a Region layer.
BranchNoElse(n) ==
    IF n.imInfo THEN "im_info"
    ELSE IF n.type = "DetectionOutput" THEN "DetectionOutput"
    ELSE "Region"

\* The if / elif / elif / else chain of postprocess().
Branch(n) ==
    IF n.imInfo THEN "im_info"
    ELSE IF n.type = "DetectionOutput" THEN "DetectionOutput"
    ELSE IF n.type = "Region" THEN "Region"
    ELSE "unknown"

(***************************************************************************)
(* cv.dnn.NMSBoxes.  Only the call is in the source; the routine is        *)
(* modelled from section 4.5 of the specification: candidates above the    *)
(* score threshold, stable sort by confidence descending, greedy keep, a   *)
(* candidate being suppressed when its IoU with a kept box is >= t.        *)
(***************************************************************************)
Max(a, b) == IF a >= b THEN a ELSE b

Min(a, b) == IF a <= b THEN a ELSE b

Area(b) == IF b[3] > 0 /\ b[4] > 0 THEN b[3] * b[4] ELSE 0

Intersection(a, b) ==
    LET w == Min(a[1] + a[3], b[1] + b[3]) - Max(a[1], b[1])
        h == Min(a[2] + a[4], b[2] + b[4]) - Max(a[2], b[2])
    IN IF w > 0 /\ h > 0 THEN w * h ELSE 0

UnionArea(a, b) == Area(a) + Area(b) - Intersection(a, b)

\* IoU(a, b) >= t / Den; a zero union gives IoU 0.
IoUAtLeast(a, b, t) ==
    UnionArea(a, b) > 0 /\ Intersection(a, b) * Den >= t * UnionArea(a, b)

\* The 1-based candidates in S, by confidence descending, ties in input order.
SortByConfidence(scores, S) ==
    LET Before(i, j) == scores[i] > scores[j] \/ (scores[i] = scores[j] /\ i < j)
        Rank(i) == 1 + Cardinality({j \in S : Before(j, i)})
    IN [p \in 1..Cardinality(S) |-> CHOOSE i \in S : Rank(i) = p]

RECURSIVE GreedyKeep(_, _, _, _, _)
GreedyKeep(bxs, order, k, kept, t) ==
    IF k > Len(order) THEN kept
    ELSE LET i == order[k]
             suppressed == \E m \in 1..Len(kept) : IoUAtLeast(bxs[i], bxs[kept[m]], t)
         IN GreedyKeep(bxs, order, k + 1,
                       IF suppressed THEN kept ELSE Append(kept, i), t)

\* The kept candidates as 0-based indices into bxs, in the order kept.
NMSBoxes(bxs, scores, score_threshold, nms_threshold) ==
    LET S == {i \in 1..Len(bxs) : scores[i] > score_threshold}
        kept == GreedyKeep(bxs, SortByConfidence(scores, S), 1, <<>>, nms_threshold)
    IN [k \in 1..Len(kept) |-> kept[k] - 1]

(***************************************************************************)
(* drawPred                                                                *)
(***************************************************************************)
\* What looking up the class label does: "ok", or the exception raised.
LabelStatus(names, classId) ==
    IF names = <<>> THEN "ok"
    ELSE IF ~(classId < Len(names)) THEN "AssertionError"
    ELSE IF ~PyInRange(names, classId) THEN "IndexError"
    ELSE "ok"

\* The rectangle and label drawn for one detection (when LabelStatus is ok).
DrawPred(names, classId, conf, left, top, right, bottom) ==
    [ classId |-> classId,
      conf |-> conf,
      name |-> IF names = <<>> THEN "" ELSE PyIndex(names, classId),
      rect |-> <<left, top, right, bottom>> ]

(***************************************************************************)
(* The state machine.  pc is the position of the current frame's cycle.    *)
(***************************************************************************)
\* The locals of a call that has ended (returned or raised).
NoLocals ==
    /\ frame' = <<0, 0>>
    /\ drawn' = <<>>
    /\ outs' = <<>>
    /\ classIds' = <<>>
    /\ confidences' = <<>>
    /\ boxes' = <<>>
    /\ rowOf' = <<>>
    /\ indices' = <<>>

Init ==
    /\ net \in Nets
    /\ classes \in ClassTables
    /\ confThreshold = ConfThreshold
    /\ nmsThreshold = NmsThreshold
    /\ pc = "Idle"
    /\ frame = <<0, 0>>
    /\ outs = <<>>
    /\ classIds = <<>>
    /\ confidences = <<>>
    /\ boxes = <<>>
    /\ rowOf = <<>>
    /\ indices = <<>>
    /\ drawn = <<>>
    /\ status = "none"
    /\ prevStatus = "none"
    /\ pass = 1

\* process(): the frame is taken and the blob is set as the network's input.
GetFrame ==
    /\ pc \in {"Idle", "Delivered", "Raised"}
    /\ \E f \in Frames : frame' = f
    /\ pc' = "AwaitingOutputs"
    /\ prevStatus' = status
    /\ status' = "ok"
    /\ UNCHANGED <<net, classes, confThreshold, nmsThreshold, outs, classIds,
                   confidences, boxes, rowOf, indices, drawn, pass>>

\* process(), im_info branch: the frame is resized, then the names inpHeight
\* and inpWidth are read; they are bound nowhere, so NameError is raised and
\* the call ends.
SetImInfo ==
    /\ pc = "AwaitingOutputs"
    /\ net.imInfo
    /\ frame' = <<InpWidth, InpHeight>>
    /\ status' = "NameError"
    /\ pc' = "Raised"
    /\ UNCHANGED <<net, classes, confThreshold, nmsThreshold, outs, classIds,
                   confidences, boxes, rowOf, indices, drawn, prevStatus, pass>>

\* process(): the forward pass, and the call of postprocess(frame, outs).
Forward ==
    /\ pc = "AwaitingOutputs"
    /\ ~net.imInfo
    /\ \E o \in OutsOf(net) : outs' = o
    /\ pc' = "HaveOutputs"
    /\ UNCHANGED <<net, classes, confThreshold, nmsThreshold, frame, classIds,
                   confidences, boxes, rowOf, indices, drawn, status,
                   prevStatus, pass>>

\* postprocess(frame, outs) called on its own.
CallPostprocess ==
    /\ pc \in {"Idle", "Returned", "Raised"}
    /\ \E f \in Frames : frame' = f
    /\ \E o \in OutsOf(net) : outs' = o
    /\ pc' = "HaveOutputs"
    /\ status' = "ok"
    /\ UNCHANGED <<net, classes, confThreshold, nmsThreshold, classIds,
                   confidences, boxes, rowOf, indices, drawn, prevStatus, pass>>

\* postprocess(): the three lists are created empty and the branch is chosen;
\* the else branch logs the error and returns.
Classify ==
    /\ pc = "HaveOutputs"
    /\ classIds' = <<>>
    /\ confidences' = <<>>
    /\ boxes' = <<>>
    /\ rowOf' = <<>>
    /\ IF Branch(net) = "unknown"
       THEN pc' = "Rejected" /\ status' = "UnsupportedOutputFormat"
       ELSE pc' = "Classified" /\ status' = status
    /\ UNCHANGED <<net, classes, confThreshold, nmsThreshold, frame, outs,
                   indices, drawn, prevStatus, pass>>

Decoded(r) ==
    /\ classIds' = r.classIds
    /\ confidences' = r.confidences
    /\ boxes' = r.boxes
    /\ rowOf' = r.rowOf
    /\ pc' = "Decoded"
    /\ UNCHANGED <<net, classes, confThreshold, nmsThreshold, frame, outs,
                   indices, drawn, status, prevStatus, pass>>

DecodeImInfo ==
    /\ pc = "Classified"
    /\ Branch(net) = "im_info"
    /\ Decoded(DecodeImInfoRows(outs, confThreshold))

DecodeDetectionOutput ==
    /\ pc = "Classified"
    /\ Branch(net) = "DetectionOutput"
    /\ Decoded(DecodeDetectionOutputRows(outs, confThreshold, frame[1], frame[2]))

DecodeRegion ==
    /\ pc = "Classified"
    /\ Branch(net) = "Region"
    /\ Decoded(DecodeRegionRows(outs, confThreshold, frame[1], frame[2]))

\* Suppress with the two thresholds handed over in the wrong order.
SuppressSwapped ==
    /\ pc = "Decoded"
    /\ indices' = NMSBoxes(boxes, confidences, nmsThreshold, confThreshold)
    /\ pc' = "Suppressed"
    /\ UNCHANGED <<net, classes, confThreshold, nmsThreshold, frame, outs,
                   classIds, confidences, boxes, rowOf, drawn, status,
                   prevStatus, pass>>

\* Suppress run once per class id: a box is only compared with kept boxes
\* of its own class.
SuppressPerClass ==
    /\ pc = "Decoded"
    /\ indices' =
          LET order == SortByConfidence(confidences,
                          {i \in 1..Len(boxes) : confidences[i] > confThreshold})
              Survives(i) ==
                  LET same == SelectSeq(Indices(boxes),
                                        LAMBDA j : classIds[j] = classIds[i])
                      kept == NMSBoxes([k \in 1..Len(same) |-> boxes[same[k]]],
                                       [k \in 1..Len(same) |-> confidences[same[k]]],
                                       confThreshold, nmsThreshold)
                  IN \E k \in 1..Len(kept) : same[kept[k] + 1] = i
              kept == SelectSeq(order, Survives)
          IN [k \in 1..Len(kept) |-> kept[k] - 1]
    /\ pc' = "Suppressed"
    /\ UNCHANGED <<net, classes, confThreshold, nmsThreshold, frame, outs,
                   classIds, confidences, boxes, rowOf, drawn, status,
                   prevStatus, pass>>

\* indices = cv.dnn.NMSBoxes(boxes, confidences, confThreshold, nmsThreshold)
Suppress ==
    /\ pc = "Decoded"
    /\ indices' = NMSBoxes(boxes, confidences, confThreshold, nmsThreshold)
    /\ pc' = "Suppressed"
    /\ UNCHANGED <<net, classes, confThreshold, nmsThreshold, frame, outs,
                   classIds, confidences, boxes, rowOf, drawn, status,
                   prevStatus, pass>>

\* The detection drawn for the k-th kept index.
Pred(k) ==
    LET i == indices[k]
        box == boxes[i + 1]
        left == box[1]
        top == box[2]
        width == box[3]
        height == box[4]
    IN DrawPred(classes, classIds[i + 1], confidences[i + 1],
                left, top, left + width, top + height)

\* The loop over the kept indices: each is drawn, until a label lookup raises
\* (the frame drawn on so far is then lost with the call).
Draw ==
    /\ pc = "Suppressed"
    /\ pass = 1
    /\ LET st == [k \in 1..Len(indices) |->
                    LabelStatus(classes, classIds[indices[k] + 1])]
           bad == {k \in 1..Len(indices) : st[k] # "ok"}
       IN IF bad = {}
          THEN /\ drawn' = [k \in 1..Len(indices) |-> Pred(k)]
               /\ pc' = "Drawn"
               /\ status' = status
               /\ UNCHANGED <<frame, outs, classIds, confidences, boxes, rowOf,
                              indices>>
          ELSE LET f == CHOOSE k \in bad : \A m \in bad : k <= m
               IN /\ pc' = "Raised"
                  /\ status' = st[f]
                  /\ NoLocals
    /\ UNCHANGED <<net, classes, confThreshold, nmsThreshold, prevStatus, pass>>

\* process(): postprocess has returned; the frame is sent to the host.
Send ==
    /\ pc \in {"Drawn", "Rejected"}
    /\ pc' = "Delivered"
    /\ NoLocals
    /\ UNCHANGED <<net, classes, confThreshold, nmsThreshold, status,
                   prevStatus, pass>>

\* postprocess() called on its own returns.
Return ==
    /\ pc \in {"Drawn", "Rejected"}
    /\ pc' = "Returned"
    /\ NoLocals
    /\ UNCHANGED <<net, classes, confThreshold, nmsThreshold, status,
                   prevStatus, pass>>

Next ==
    \/ GetFrame
    \/ SetImInfo
    \/ Forward
    \/ Classify
    \/ DecodeDetectionOutput
    \/ DecodeRegion
    \/ Suppress
    \/ Draw
    \/ Send

Spec == Init /\ [][Next]_vars

NextPostprocess ==
    \/ CallPostprocess
    \/ Classify
    \/ DecodeImInfo
    \/ DecodeDetectionOutput
    \/ DecodeRegion
    \/ Suppress
    \/ Draw
    \/ Return

SpecPostprocess == Init /\ [][NextPostprocess]_vars

(***************************************************************************)
(* Suppression on its own: any candidate lists a decoder can leave behind  *)
(* (confidences above the threshold, integer boxes, a zero-width box       *)
(* among them), suppressed, and the kept candidates suppressed once more.  *)
(***************************************************************************)
CandBoxes ==
    { <<0, 0, 5, 1>>, <<2, 0, 5, 1>>, <<4, 0, 5, 1>>, <<0, 0, 2, 1>>,
      <<0, 0, 0, 1>> }

CandConfs == {60, 80, 90}

CandClassIds == {0, 1}

Cands == [classId : CandClassIds, conf : CandConfs, box : CandBoxes]

InitNMS ==
    /\ net = [imInfo |-> FALSE, type |-> "Region"]
    /\ classes = <<>>
    /\ confThreshold = ConfThreshold
    /\ nmsThreshold = NmsThreshold
    /\ pc = "Decoded"
    /\ frame = <<640, 480>>
    /\ outs = <<>>
    /\ \E c \in SeqsUpTo(Cands, MaxCands) :
          /\ classIds = [k \in 1..Len(c) |-> c[k].classId]
          /\ confidences = [k \in 1..Len(c) |-> c[k].conf]
          /\ boxes = [k \in 1..Len(c) |-> c[k].box]
          /\ rowOf = Indices(c)
    /\ indices = <<>>
    /\ drawn = <<>>
    /\ status = "ok"
    /\ prevStatus = "none"
    /\ pass = 1

\* The kept candidates (boxes[i], confidences[i], classIds[i] for i in
\* indices) become the lists of a second suppression.  rowOf keeps each
\* one's place in the first lists.
Resubmit ==
    /\ pc = "Suppressed"
    /\ pass = 1
    /\ boxes' = [k \in 1..Len(indices) |-> boxes[indices[k] + 1]]
    /\ confidences' = [k \in 1..Len(indices) |-> confidences[indices[k] + 1]]
    /\ classIds' = [k \in 1..Len(indices) |-> classIds[indices[k] + 1]]
    /\ rowOf' = [k \in 1..Len(indices) |-> rowOf[indices[k] + 1]]
    /\ indices' = <<>>
    /\ pass' = 2
    /\ pc' = "Decoded"
    /\ UNCHANGED <<net, classes, confThreshold, nmsThreshold, frame, outs,
                   drawn, status, prevStatus>>

NextNMS ==
    \/ Suppress
    \/ Resubmit

SpecNMS == InitNMS /\ [][NextNMS]_vars

(***************************************************************************)
(* Properties                                                              *)
(***************************************************************************)
Range(s) == {s[k] : k \in 1..Len(s)}

\* The 1-based places, in the candidate lists, of the kept candidates.
Kept == {i + 1 : i \in Range(indices)}

\* n is the rational a / Den with its fraction dropped, toward zero.
IsTruncation(n, a) ==
    IF a >= 0 THEN n * Den <= a /\ a < (n + 1) * Den
    ELSE n * Den >= a /\ a > (n - 1) * Den

\* C1: in each of the three decoders, every candidate emitted has a
\* confidence strictly above confThreshold, and a row whose confidence is at
\* or below the threshold (for a Region row: whose scores detection[5:] are
\* all at or below it) leaves no candidate.
C1_ThresholdStrict ==
    pc = "Decoded" =>
        /\ \A k \in 1..Len(confidences) : confidences[k] > confThreshold
        /\ \A i \in 1..Len(outs) :
              LET c == IF Branch(net) = "Region"
                       THEN {outs[i][j] : j \in 6..Len(outs[i])}
                       ELSE {outs[i][3]}
              IN (\A x \in c : x <= confThreshold) => i \notin Range(rowOf)
        /\ Branch(net) # "Region" =>
              \A k \in 1..Len(rowOf) : confidences[k] = outs[rowOf[k]][3]

\* A row whose confidence equals the threshold was dropped, next to a row
\* that was emitted.
C1_Witness ==
    /\ pc = "Decoded"
    /\ Branch(net) = "Region"
    /\ Len(confidences) = 1
    /\ \E i \in 1..Len(outs) :
          /\ i \notin Range(rowOf)
          /\ outs[i][6] = confThreshold
          /\ outs[i][7] < confThreshold

\* C2: in the im_info and DetectionOutput decoders every candidate has
\* classId = rawClassId - 1, and no row whose raw class id is 0 leaves a
\* candidate.
C2_BackgroundNeverEmitted ==
    (pc = "Decoded" /\ Branch(net) \in {"im_info", "DetectionOutput"}) =>
        /\ \A k \in 1..Len(rowOf) : classIds[k] * Den = outs[rowOf[k]][2] - Den
        /\ \A i \in 1..Len(outs) : outs[i][2] = 0 => i \notin Range(rowOf)

\* C3: no decoder leaves a box of width <= 0 or height <= 0 in its list.
C3_NoDegenerateBox ==
    pc = "Decoded" => \A k \in 1..Len(boxes) : boxes[k][3] > 0 /\ boxes[k][4] > 0

\* C4 as stated: the DetectionOutput decoder's box is left = round(rawLeft *
\* frameWidth), top = round(rawTop * frameHeight), width = round(rawRight *
\* frameWidth) - left + 1, height = round(rawBottom * frameHeight) - top + 1.
C4_BoxRounded ==
    (pc = "Decoded" /\ Branch(net) = "DetectionOutput") =>
        \A k \in 1..Len(boxes) :
            LET d == outs[rowOf[k]]
                left == Round(d[4] * frame[1])
                top == Round(d[5] * frame[2])
            IN boxes[k] = <<left, top, Round(d[6] * frame[1]) - left + 1,
                            Round(d[7] * frame[2]) - top + 1>>

\* C4 amended: the DetectionOutput decoder's left, top, right and bottom are
\* the products rawLeft * frameWidth, ... with the fraction dropped (toward
\* zero), width = right - left + 1, height = bottom - top + 1; at 640 x 480
\* the row [0, 5, 0.9, 0.1, 0.2, 0.5, 0.6] gives the box 64, 96, 257, 193 and
\* classId 4.
C4_BoxTruncated ==
    (pc = "Decoded" /\ Branch(net) = "DetectionOutput") =>
        \A k \in 1..Len(boxes) :
            LET d == outs[rowOf[k]]
                b == boxes[k]
            IN /\ IsTruncation(b[1], d[4] * frame[1])
               /\ IsTruncation(b[2], d[5] * frame[2])
               /\ IsTruncation(b[1] + b[3] - 1, d[6] * frame[1])
               /\ IsTruncation(b[2] + b[4] - 1, d[7] * frame[2])
               /\ (frame = <<640, 480>> /\ d = <<0, 500, 90, 10, 20, 50, 60>>) =>
                      (b = <<64, 96, 257, 193>> /\ classIds[k] = 4)

\* An accepted row whose products have fractions (0.1 * 176 = 17.6,
\* 0.2 * 144 = 28.8), and which rounding would place elsewhere.
C4_Witness ==
    /\ pc = "Decoded"
    /\ Branch(net) = "DetectionOutput"
    /\ frame = <<176, 144>>
    /\ \E k \in 1..Len(boxes) :
          /\ outs[rowOf[k]] = <<0, 500, 90, 10, 20, 50, 60>>
          /\ boxes[k] = <<17, 28, 72, 59>>
          /\ Round(10 * 176) = 18

\* C5: in the Region decoder the classId is the index, counted from the
\* element right after the four box fields, of the row's maximum class score
\* (the lowest such index), and the confidence is that score; the scores
\* 0.1, 0.8, 0.05 give classId 1 and confidence 0.8.
C5_ArgMaxAfterBox ==
    (pc = "Decoded" /\ Branch(net) = "Region") =>
        \A k \in 1..Len(rowOf) :
            LET d == outs[rowOf[k]]
                scores == SubSeq(d, 5, Len(d))
            IN /\ classIds[k] = ArgMax(scores)
               /\ confidences[k] = scores[classIds[k] + 1]
               /\ scores = <<10, 80, 5>> => (classIds[k] = 1 /\ confidences[k] = 80)

\* C6: the kept boxes have pairwise IoU strictly below the suppression
\* threshold, and suppressing the kept candidates again keeps all of them, in
\* the same order.
C6_NmsIdempotent ==
    pc = "Suppressed" =>
        /\ \A i \in Kept : \A j \in Kept \ {i} :
              \/ UnionArea(boxes[i], boxes[j]) = 0
              \/ Intersection(boxes[i], boxes[j]) * Den
                     < nmsThreshold * UnionArea(boxes[i], boxes[j])
        /\ pass = 2 => indices = [k \in 1..Len(boxes) |-> k - 1]

\* The second suppression of two candidates kept, in the order 3, 1, from
\* three of which the second was suppressed.
C6_Witness ==
    /\ pc = "Suppressed"
    /\ pass = 2
    /\ rowOf = <<3, 1>>
    /\ indices = <<0, 1>>
    /\ boxes[1] # boxes[2]

UnknownNet == ~net.imInfo /\ net.type \notin {"DetectionOutput", "Region"}

\* C8: with no im_info port and a last layer that is neither DetectionOutput
\* nor Region, a frame's cycle ends with the error logged and nothing decoded,
\* suppressed or drawn; nothing is raised, the frame is sent and the next
\* frame can be taken.
C8_UnknownLayerRejected ==
    UnknownNet =>
        /\ pc \in {"Idle", "AwaitingOutputs", "HaveOutputs", "Rejected", "Delivered"}
        /\ classIds = <<>> /\ confidences = <<>> /\ boxes = <<>>
        /\ indices = <<>>
        /\ drawn = <<>>
        /\ status \in {"none", "ok", "UnsupportedOutputFormat"}
        /\ pc \in {"Rejected", "Delivered"} => status = "UnsupportedOutputFormat"
        /\ pc = "Rejected" => ENABLED Send
        /\ pc = "Delivered" => ENABLED GetFrame

\* The frame after a rejected frame, rejected in its turn.
C8_Witness ==
    /\ UnknownNet
    /\ pc = "Rejected"
    /\ prevStatus = "UnsupportedOutputFormat"
    /\ status = "UnsupportedOutputFormat"
    /\ outs # <<>>

\* C9: a label is only ever drawn for a classId that is an index of the
\* class table, 0 <= classId < len(classes); for any other classId an error
\* is raised instead.
C9_LabelIndexChecked ==
    (pc = "Drawn" /\ classes # <<>>) =>
        \A k \in 1..Len(drawn) :
            0 <= drawn[k].classId /\ drawn[k].classId < Len(classes)

\* What the frame's cycle delivers, from the frame's own inputs alone.
Detections(n, names, f, o, ct, nt) ==
    LET r == IF Branch(n) = "im_info" THEN DecodeImInfoRows(o, ct)
             ELSE IF Branch(n) = "DetectionOutput"
                  THEN DecodeDetectionOutputRows(o, ct, f[1], f[2])
                  ELSE DecodeRegionRows(o, ct, f[1], f[2])
        kept == NMSBoxes(r.boxes, r.confidences, ct, nt)
    IN [k \in 1..Len(kept) |->
          LET box == r.boxes[kept[k] + 1]
          IN DrawPred(names, r.classIds[kept[k] + 1], r.confidences[kept[k] + 1],
                      box[1], box[2], box[1] + box[3], box[2] + box[4])]

CycleOrder ==
    { <<"Idle", "AwaitingOutputs">>, <<"Delivered", "AwaitingOutputs">>,
      <<"AwaitingOutputs", "HaveOutputs">>, <<"HaveOutputs", "Classified">>,
      <<"HaveOutputs", "Rejected">>, <<"Classified", "Decoded">>,
      <<"Decoded", "Suppressed">>, <<"Suppressed", "Drawn">>,
      <<"Drawn", "Delivered">>, <<"Rejected", "Delivered">> }

\* C10: every frame's cycle goes awaiting outputs, classified, decoded,
\* suppressed, delivered (or is rejected at classification); the candidate
\* lists are empty when a frame is classified, the two thresholds never
\* change, and what is drawn for a frame is a function of that frame's
\* tensors, geometry, network format and the thresholds.
C10_CycleOrder ==
    [][ /\ <<pc, pc'>> \in CycleOrder
        /\ confThreshold' = confThreshold
        /\ nmsThreshold' = nmsThreshold
        /\ pc' \in {"Classified", "Rejected"} =>
              (classIds' = <<>> /\ confidences' = <<>> /\ boxes' = <<>>)
        /\ pc' = "Drawn" =>
              drawn' = Detections(net, classes, frame, outs,
                                  ConfThreshold, NmsThreshold) ]_vars

====
